---- MODULE Spec2Model ----
(***************************************************************************)
(* The path-validation kernel of the Wikiracing agent                      *)
(* (01_naive_agent.ipynb): the memoised link lookup get_outbound_links and *)
(* the result validator validate_path, which builds a DiGraph from the     *)
(* links of the pages of a candidate path and asks networkx whether the    *)
(* candidate is a simple path of it.                                       *)
(***************************************************************************)
EXTENDS Integers, Sequences, FiniteSets, TLC

\* Longest candidate path (pages_by_title) the model draws.
MaxLen == 3
\* Most invocations of the wikipedia lookup the model follows for one title.
MaxCalls == 2

\* Page titles: opaque strings, compared by exact equality.
Titles == {"A", "B"}
\* The caller threads of the interleaved lookups.
Threads == {1, 2}

VARIABLES
    wiki,        \* the encyclopedia: what the wikipedia lookup answers for each title
    cache,       \* functools.cache of get_outbound_links: title -> links returned
    calls,       \* per title, how often wikipedia.WikipediaPage(...) was invoked
    data,        \* argument of the latest validate_path call
    outcome,     \* how the latest validate_path call ended
    g,           \* the DiGraph the latest validate_path call built
    requested,   \* titles passed to get_outbound_links by the latest call, in order
    asked,       \* titles for which the latest call reached the wikipedia lookup
    again,       \* the latest call repeated the data of the call before it
    prevOutcome, \* outcome of the call before the latest one
    tpc,         \* per thread: position inside get_outbound_links
    targ,        \* per thread: page_name of the lookup in progress
    tinv,        \* per thread: the lookup in progress invoked wikipedia
    tres         \* per thread: what the lookup in progress returned or raised

vars == <<wiki, cache, calls, data, outcome, g, requested, asked, again,
          prevOutcome, tpc, targ, tinv, tres>>
valVars == <<data, outcome, g, requested, asked, again, prevOutcome>>
thrVars == <<tpc, targ, tinv, tres>>

----------------------------------------------------------------------------
(* The external wikipedia client.                                          *)

\* What wikipedia.WikipediaPage(page_name, redirect=True).links can do: give
\* the page's links, raise PageError, or fail in any other way
\* (DisambiguationError, a network error, ...).
Answers ==
    [kind : {"links"}, links : SUBSET Titles]
        \cup [kind : {"PageError", "OtherError"}, links : {{}}]

\* str(e) of the PageError the wikipedia client raises for page_name.
PageErrorMessage(page_name) ==
    "Page id \"" \o page_name \o "\" does not match any pages. Try another id!"

PathNotValid == "Path is not valid"

\* Ways get_outbound_links ends: it returns the links, raises ModelRetry(reason),
\* or lets any other exception through.
Returned(links)    == [kind |-> "return", links |-> links, reason |-> ""]
Retry(reason)      == [kind |-> "ModelRetry", links |-> {}, reason |-> reason]
OtherException     == [kind |-> "Exception", links |-> {}, reason |-> "lookup failed"]
NoResult           == [kind |-> "none", links |-> {}, reason |-> ""]

\* Ways validate_path ends: it returns data, raises ModelRetry(reason), or lets
\* any other exception through. NotValidated: no call yet.
Accepted           == [kind |-> "Accepted", reason |-> ""]
Rejected(reason)   == [kind |-> "ModelRetry", reason |-> reason]
Failed             == [kind |-> "Exception", reason |-> "lookup failed"]
NotValidated       == [kind |-> "none", reason |-> ""]

\* ResultType: a PathFoundResult with its pages_by_title, or a NoPathFoundResult.
PathFoundResult(p) == [found |-> TRUE, pages_by_title |-> p]
NoPathFoundResult  == [found |-> FALSE, pages_by_title |-> <<>>]
Paths              == UNION {[1..n -> Titles] : n \in 0..MaxLen}
ResultType         == {PathFoundResult(p) : p \in Paths} \cup {NoPathFoundResult}

Elems(p) == {p[i] : i \in 1..Len(p)}

----------------------------------------------------------------------------
(* get_outbound_links, under @cache.                                       *)

\* The body of get_outbound_links: the wikipedia lookup, with PageError turned
\* into ModelRetry(str(e)) and every other exception let through.
Lookup(page_name) ==
    CASE wiki[page_name].kind = "links"     -> Returned(wiki[page_name].links)
      [] wiki[page_name].kind = "PageError" -> Retry(PageErrorMessage(page_name))
      [] OTHER                              -> OtherException

\* A mutation: the failure of a lookup is remembered as a page without links.
CacheStoreFailures(c, page_name, res) ==
    [t \in DOMAIN c \cup {page_name} |->
        IF t = page_name THEN res.links ELSE c[t]]

\* functools.cache stores a value the function returned and nothing when it raised.
CacheStore(c, page_name, res) ==
    IF res.kind = "return"
    THEN [t \in DOMAIN c \cup {page_name} |->
             IF t = page_name THEN res.links ELSE c[t]]
    ELSE c

\* A mutation: no memoisation at all (the @cache decorator dropped).
get_outbound_links_uncached(s, page_name) ==
    [cache   |-> s.cache,
     calls   |-> [s.calls EXCEPT ![page_name] = @ + 1],
     invoked |-> TRUE,
     res     |-> Lookup(page_name)]

\* One synchronous call get_outbound_links(page_name) from the state
\* s = [cache, calls]: a hit returns the stored links without running the body;
\* a miss runs the body (one wikipedia invocation) and stores what it returned.
get_outbound_links(s, page_name) ==
    IF page_name \in DOMAIN s.cache
    THEN [cache   |-> s.cache,
          calls   |-> s.calls,
          invoked |-> FALSE,
          res     |-> Returned(s.cache[page_name])]
    ELSE [cache   |-> CacheStore(s.cache, page_name, Lookup(page_name)),
          calls   |-> [s.calls EXCEPT ![page_name] = @ + 1],
          invoked |-> TRUE,
          res     |-> Lookup(page_name)]

----------------------------------------------------------------------------
(* networkx: DiGraph, add_edge, is_simple_path.                            *)

DiGraph == [nodes |-> {}, edges |-> {}]

\* A mutation: an undirected Graph, every edge usable in both directions.
add_edges_undirected(G, u, links) ==
    [nodes |-> G.nodes \cup (IF links = {} THEN {} ELSE {u} \cup links),
     edges |-> G.edges \cup {<<u, v>> : v \in links} \cup {<<v, u>> : v \in links}]

\* A mutation: the page itself is added as a node before its links are.
add_edges_with_source(G, u, links) ==
    [nodes |-> G.nodes \cup {u} \cup links,
     edges |-> G.edges \cup {<<u, v>> : v \in links}]

\* for linked_title in links: g.add_edge(u, linked_title). add_edge adds both
\* end points as nodes; a page without links adds nothing, not even itself.
add_edges(G, u, links) ==
    [nodes |-> G.nodes \cup (IF links = {} THEN {} ELSE {u} \cup links),
     edges |-> G.edges \cup {<<u, v>> : v \in links}]

\* A mutation: the repeated-node test left out (is_path instead of is_simple_path).
is_path(G, nodes) ==
    IF Len(nodes) = 0 THEN FALSE
    ELSE IF Len(nodes) = 1 THEN nodes[1] \in G.nodes
    ELSE /\ \A i \in 1..Len(nodes) : nodes[i] \in G.nodes
         /\ \A i \in 1..(Len(nodes) - 1) : <<nodes[i], nodes[i + 1]>> \in G.edges

\* A mutation: the empty list and the single node treated like every other list.
is_simple_path_no_special_cases(G, nodes) ==
    /\ Cardinality(Elems(nodes)) = Len(nodes)
    /\ \A i \in 1..(Len(nodes) - 1) : <<nodes[i], nodes[i + 1]>> \in G.edges

\* A mutation: adjacency tested against the direction of the edges.
is_simple_path_reversed(G, nodes) ==
    IF Len(nodes) = 0 THEN FALSE
    ELSE IF Len(nodes) = 1 THEN nodes[1] \in G.nodes
    ELSE /\ \A i \in 1..Len(nodes) : nodes[i] \in G.nodes
         /\ Cardinality(Elems(nodes)) = Len(nodes)
         /\ \A i \in 1..(Len(nodes) - 1) : <<nodes[i + 1], nodes[i]>> \in G.edges

\* networkx.is_simple_path: the empty list is no path; a single node is a path
\* iff it is a node of G; otherwise all nodes are in G, none repeats, and each
\* consecutive pair is an edge.
is_simple_path(G, nodes) ==
    IF Len(nodes) = 0 THEN FALSE
    ELSE IF Len(nodes) = 1 THEN nodes[1] \in G.nodes
    ELSE /\ \A i \in 1..Len(nodes) : nodes[i] \in G.nodes
         /\ Cardinality(Elems(nodes)) = Len(nodes)
         /\ \A i \in 1..(Len(nodes) - 1) : <<nodes[i], nodes[i + 1]>> \in G.edges

----------------------------------------------------------------------------
(* validate_path.                                                          *)

\* The state a validate_path call starts its loop in.
LoopStart(c, k) ==
    [cache |-> c, calls |-> k, g |-> DiGraph, requested |-> <<>>,
     asked |-> <<>>, raised |-> NoResult]

\* The loop over data.pages_by_title from index i on: each page's links are
\* fetched and added as edges; an exception of get_outbound_links ends the loop
\* (and the call) at once.
RECURSIVE ForEachPage(_, _, _)
ForEachPage(p, i, s) ==
    IF i > Len(p) THEN s
    ELSE LET r == get_outbound_links([cache |-> s.cache, calls |-> s.calls], p[i])
             t == [cache     |-> r.cache,
                   calls     |-> r.calls,
                   g         |-> IF r.res.kind = "return"
                                 THEN add_edges(s.g, p[i], r.res.links)
                                 ELSE s.g,
                   requested |-> Append(s.requested, p[i]),
                   asked     |-> IF r.invoked THEN Append(s.asked, p[i]) ELSE s.asked,
                   raised    |-> IF r.res.kind = "return" THEN NoResult ELSE r.res]
         IN  IF r.res.kind = "return" THEN ForEachPage(p, i + 1, t) ELSE t

\* How validate_path(d) ends once its loop ended in state s.
Verdict(d, s) ==
    IF ~d.found THEN Accepted
    ELSE IF s.raised.kind = "ModelRetry" THEN Rejected(s.raised.reason)
    ELSE IF s.raised.kind = "Exception" THEN Failed
    ELSE IF ~is_simple_path(s.g, d.pages_by_title) THEN Rejected(PathNotValid)
    ELSE Accepted

\* The state validate_path(d) ends in, started with cache c and counters k.
Validation(d, c, k) ==
    IF d.found THEN ForEachPage(d.pages_by_title, 1, LoopStart(c, k))
    ELSE LoopStart(c, k)

\* One call validate_path(d), start to end.
validate_path(d) ==
    \E s \in {Validation(d, cache, calls)} :
        /\ \A t \in Titles : s.calls[t] <= MaxCalls
        /\ cache' = s.cache
        /\ calls' = s.calls
        /\ data' = d
        /\ outcome' = Verdict(d, s)
        /\ g' = s.g
        /\ requested' = s.requested
        /\ asked' = s.asked
        /\ again' = (outcome.kind # "none" /\ d = data)
        /\ prevOutcome' = IF outcome.kind # "none" /\ d = data
                          THEN outcome ELSE NotValidated
        /\ UNCHANGED <<wiki, thrVars>>

Validate == \E d \in ResultType : validate_path(d)

Init ==
    /\ wiki \in [Titles -> Answers]
    /\ cache = <<>>
    /\ calls = [t \in Titles |-> 0]
    /\ data = NoPathFoundResult
    /\ outcome = NotValidated
    /\ g = DiGraph
    /\ requested = <<>>
    /\ asked = <<>>
    /\ again = FALSE
    /\ prevOutcome = NotValidated
    /\ tpc = [t \in Threads |-> "idle"]
    /\ targ = [t \in Threads |-> "A"]
    /\ tinv = [t \in Threads |-> FALSE]
    /\ tres = [t \in Threads |-> NoResult]

Next == Validate

Spec == Init /\ [][Next]_vars

----------------------------------------------------------------------------
(* Interleaved lookups: get_outbound_links called from two threads (the    *)
(* agent framework runs a plain tool function in a worker thread).         *)
(* functools.cache looks the key up, and on a miss runs the function and   *)
(* stores its value afterwards; nothing is held while the function runs.   *)

\* Thread t calls get_outbound_links(page_name).
Begin(t, page_name) ==
    /\ tpc[t] = "idle"
    /\ tpc' = [tpc EXCEPT ![t] = "check"]
    /\ targ' = [targ EXCEPT ![t] = page_name]
    /\ tinv' = [tinv EXCEPT ![t] = FALSE]
    /\ tres' = [tres EXCEPT ![t] = NoResult]
    /\ UNCHANGED <<wiki, cache, calls, valVars>>

\* The cache wrapper finds the key and returns the stored links.
CacheHit(t) ==
    /\ tpc[t] = "check"
    /\ targ[t] \in DOMAIN cache
    /\ tpc' = [tpc EXCEPT ![t] = "done"]
    /\ tres' = [tres EXCEPT ![t] = Returned(cache[targ[t]])]
    /\ UNCHANGED <<wiki, cache, calls, valVars, targ, tinv>>

\* The cache wrapper misses and enters the function: the wikipedia request is sent.
CacheMiss(t) ==
    /\ tpc[t] = "check"
    /\ targ[t] \notin DOMAIN cache
    /\ calls[targ[t]] < MaxCalls
    /\ calls' = [calls EXCEPT ![targ[t]] = @ + 1]
    /\ tinv' = [tinv EXCEPT ![t] = TRUE]
    /\ tpc' = [tpc EXCEPT ![t] = "running"]
    /\ UNCHANGED <<wiki, cache, valVars, targ, tres>>

\* The function ends: its value is stored and returned, its exception passed on.
BodyEnd(t) ==
    /\ tpc[t] = "running"
    /\ cache' = CacheStore(cache, targ[t], Lookup(targ[t]))
    /\ tres' = [tres EXCEPT ![t] = Lookup(targ[t])]
    /\ tpc' = [tpc EXCEPT ![t] = "done"]
    /\ UNCHANGED <<wiki, calls, valVars, targ, tinv>>

\* The caller has taken the result.
Finish(t) ==
    /\ tpc[t] = "done"
    /\ tpc' = [tpc EXCEPT ![t] = "idle"]
    /\ targ' = [targ EXCEPT ![t] = "A"]
    /\ tinv' = [tinv EXCEPT ![t] = FALSE]
    /\ tres' = [tres EXCEPT ![t] = NoResult]
    /\ UNCHANGED <<wiki, cache, calls, valVars>>

NextConc ==
    \E t \in Threads :
        \/ \E page_name \in Titles : Begin(t, page_name)
        \/ CacheHit(t)
        \/ CacheMiss(t)
        \/ BodyEnd(t)
        \/ Finish(t)

SpecConc == Init /\ [][NextConc]_vars

----------------------------------------------------------------------------
(* Properties.                                                             *)

\* The latest validate_path call got a PathFoundResult.
ValidatedPath == outcome.kind # "none" /\ data.found
P == data.pages_by_title

\* No title repeats in p.
Distinct(p) == Cardinality(Elems(p)) = Len(p)
\* Every consecutive pair of p is a link of the encyclopedia.
Linked(p) ==
    \A i \in 1..(Len(p) - 1) :
        wiki[p[i]].kind = "links" /\ p[i + 1] \in wiki[p[i]].links

\* C1 as stated: every non-empty path of pairwise distinct titles whose
\* consecutive pairs are linked is accepted, whatever the resolver answers for
\* its last element.
C1_CompleteWhateverTheLastAnswer ==
    (ValidatedPath /\ Len(P) >= 1 /\ Distinct(P) /\ Linked(P)) => outcome = Accepted

\* C1 amended: such a path is accepted provided the resolver also returns a link
\* set for its last element, a non-empty one when the path has a single element.
C1_Complete ==
    (/\ ValidatedPath /\ Len(P) >= 1 /\ Distinct(P) /\ Linked(P)
     /\ wiki[P[Len(P)]].kind = "links"
     /\ (Len(P) = 1 => wiki[P[1]].links # {}))
        => outcome = Accepted

C1_Witness ==
    /\ ValidatedPath /\ Len(P) = 2 /\ Distinct(P) /\ Linked(P)
    /\ wiki[P[2]].kind = "links" /\ P[1] \notin wiki[P[2]].links
    /\ outcome = Accepted

\* C2: a path with a repeated title, or with a consecutive pair that is no link,
\* is never accepted: an accepted path has pairwise distinct titles and every
\* consecutive pair linked.
C2_Sound ==
    (ValidatedPath /\ (~Distinct(P) \/ ~Linked(P))) => outcome # Accepted

C2_Witness ==
    /\ ValidatedPath /\ Len(P) = 3 /\ P[1] = P[3] /\ P[1] # P[2] /\ Linked(P)
    /\ outcome = Rejected(PathNotValid)

\* C3 as stated: a single-element path is accepted whatever the resolver answers
\* for it, and without any resolver call.
C3_SingleAlwaysAccepted ==
    (ValidatedPath /\ Len(P) = 1) => (outcome = Accepted /\ asked = <<>>)

\* C3 amended: a single-element path [X] is accepted exactly when the resolver's
\* answer for X is a non-empty link set; an empty link set is rejected as
\* "Path is not valid", page-not-found with the resolver's message; X is always
\* looked up, and the resolver is invoked for it unless its links are cached.
C3_Single ==
    (ValidatedPath /\ Len(P) = 1) =>
        /\ outcome = Accepted <=> (wiki[P[1]].kind = "links" /\ wiki[P[1]].links # {})
        /\ (wiki[P[1]].kind = "links" /\ wiki[P[1]].links = {})
               => outcome = Rejected(PathNotValid)
        /\ wiki[P[1]].kind = "PageError"
               => outcome = Rejected(PageErrorMessage(P[1]))
        /\ requested = <<P[1]>>
        /\ asked = <<P[1]>> \/ (asked = <<>> /\ P[1] \in DOMAIN cache)

C3_Witness ==
    /\ ValidatedPath /\ Len(P) = 1
    /\ wiki[P[1]].kind = "links" /\ wiki[P[1]].links = {}
    /\ asked = <<P[1]>>
    /\ outcome = Rejected(PathNotValid)

\* C4: when the resolver fails with page-not-found for some title of the path,
\* the call ends in ModelRetry with that resolver message as its reason.
C4_PageErrorIsRetry ==
    (ValidatedPath /\ \E i \in 1..Len(P) : wiki[P[i]].kind = "PageError") =>
        \E i \in 1..Len(P) :
            /\ wiki[P[i]].kind = "PageError"
            /\ outcome = Rejected(PageErrorMessage(P[i]))

\* C5: a validate_path call ends in acceptance or in ModelRetry, never in another
\* exception.
C5_NoFatalError == outcome.kind \in {"none", "Accepted", "ModelRetry"}

\* C6 as stated: the resolver is invoked at most once for each title, whatever
\* the lookups' outcomes.
C6_AtMostOncePerTitle == \A t \in Titles : calls[t] <= 1

\* C6 amended: the resolver is invoked at most once for each title it returns a
\* link set for; a title is cached exactly when such a lookup has happened, with
\* the links the resolver gave, and stays cached; failed lookups are not cached.
C6_AtMostOncePerResolvedTitle ==
    \A t \in Titles :
        /\ wiki[t].kind = "links" => calls[t] <= 1
        /\ t \in DOMAIN cache <=> (wiki[t].kind = "links" /\ calls[t] = 1)
        /\ t \in DOMAIN cache => cache[t] = wiki[t].links

C6_Witness ==
    /\ ValidatedPath /\ Len(P) = 3 /\ P[1] = P[2]
    /\ asked = <<P[1]>>
    /\ requested = P
    /\ calls[P[1]] = 1

\* C7: a validate_path call that repeats the data of the call before it ends the
\* same way.
C7_Idempotent == again => outcome = prevOutcome

C7_Witness ==
    /\ again /\ ValidatedPath /\ Len(P) = 2
    /\ asked = <<>> /\ requested = P
    /\ outcome = Accepted /\ prevOutcome = Accepted

\* C8: the empty path is rejected as "Path is not valid" and nothing is looked up.
C8_EmptyRejected ==
    (ValidatedPath /\ P = <<>>) =>
        (outcome = Rejected(PathNotValid) /\ requested = <<>> /\ asked = <<>>)

C8_Witness ==
    /\ ValidatedPath /\ P = <<>> /\ outcome = Rejected(PathNotValid)
    /\ \E t \in Titles : calls[t] > 0

\* C9: a call resolves only titles of its path, at most one lookup per element,
\* and every edge of the graph it builds starts at an element of the path.
C9_RestrictedExpansion ==
    ValidatedPath =>
        /\ Elems(requested) \subseteq Elems(P)
        /\ Elems(asked) \subseteq Elems(P)
        /\ Len(requested) <= Len(P)
        /\ Len(asked) <= Len(P)
        /\ \A e \in g.edges : e[1] \in Elems(P)

C9_Witness ==
    /\ ValidatedPath
    /\ \E v \in g.nodes : v \notin Elems(P) /\ calls[v] = 0 /\ v \notin DOMAIN cache

\* C10: when two lookups of one title overlap, the resolver is invoked by at most
\* one of them and both obtain the same links.
C10_AtomicGetOrPopulate ==
    \A x \in Titles :
        (/\ wiki[x].kind = "links"
         /\ \A t \in Threads : tpc[t] # "idle" /\ targ[t] = x)
            => /\ Cardinality({t \in Threads : tinv[t]}) <= 1
               /\ (\A t \in Threads : tpc[t] = "done") => tres[1] = tres[2]

====
